---- MODULE Spec2Model ----
(***************************************************************************)
(* Model of the SSD1306 OLED display driver (class SSD1306).               *)
(*                                                                         *)
(* The state is the object's fields; every public method is one action.    *)
(* The I2C transport (HAL_I2C_Mem_Write) is external: the status of each   *)
(* call is an input, and the calls made by the most recent operation are   *)
(* recorded in `sent`.                                                     *)
(***************************************************************************)
EXTENDS Integers, Sequences, FiniteSets, TLC

VARIABLES
    height,         \* const uint8_t height
    hard_conf,      \* const uint8_t hard_conf
    buffer,         \* std::array<uint8_t, buffer_size> buffer
    Coordinates,    \* struct { uint8_t X; uint8_t Y; }
    font,           \* Fonts::FontDef font
    isinitialized,  \* bool isinitialized
    last_error,     \* int last_error
    sent,           \* transport calls made by the most recent operation
    op,             \* the most recent operation and its arguments
    ret,            \* what the most recent operation returned
    steps           \* number of operations the model may still perform

vars == <<height, hard_conf, buffer, Coordinates, font, isinitialized,
          last_error, sent, op, ret, steps>>

----------------------------------------------------------------------------
(* Program constants *)

width == 128
buffer_size == (64 \div 8) * 128
BLACK == 0
WHITE == 255
control_b_command == 0
control_b_data == 64
SEQ_NOREMAP == 2
ALT_NOREMAP == 18

(* Bounds of the model *)

MaxSteps == 2
MaxDrawSteps == 1
MaxTextSteps == 2
MaxTallSteps == 2
MaxStickySteps == 3
LongLen == 19

----------------------------------------------------------------------------
(* Fixed-width arithmetic *)

U8(v) == v % 256

RECURSIVE Pow2(_)
Pow2(k) == IF k = 0 THEN 1 ELSE 2 * Pow2(k - 1)

RECURSIVE BitOr(_, _)
BitOr(a, b) ==
    IF a = 0 THEN b
    ELSE IF b = 0 THEN a
    ELSE (IF a % 2 = 1 \/ b % 2 = 1 THEN 1 ELSE 0) + 2 * BitOr(a \div 2, b \div 2)

RECURSIVE BitAnd(_, _)
BitAnd(a, b) ==
    IF a = 0 \/ b = 0 THEN 0
    ELSE (IF a % 2 = 1 /\ b % 2 = 1 THEN 1 ELSE 0) + 2 * BitAnd(a \div 2, b \div 2)

----------------------------------------------------------------------------
(* Transport.  A machine m = [hal, le, tx] threads the HAL status schedule, *)
(* last_error and the calls made so far through one operation.             *)

\* Status returned by the i-th HAL call of an operation under schedule f:
\* 0 before call f[1], f[3] from call f[1] up to call f[2]-1, f[4] afterwards.
HAL_I2C_Mem_Write(f, i) ==
    IF i < f[1] THEN 0 ELSE IF i < f[2] THEN f[3] ELSE f[4]

Machine(f) == [hal |-> f, le |-> last_error, tx |-> <<>>]

\* Write_Command storing every status, also a zero one
Write_Command_overwrite(m, command) ==
    LET temp == HAL_I2C_Mem_Write(m.hal, Len(m.tx) + 1)
    IN  [m EXCEPT !.tx = Append(@, [ctrl |-> control_b_command,
                                    data |-> <<U8(command)>>,
                                    status |-> temp]),
                  !.le = temp]

Write_Command(m, command) ==
    LET temp == HAL_I2C_Mem_Write(m.hal, Len(m.tx) + 1)
    IN  [m EXCEPT !.tx = Append(@, [ctrl |-> control_b_command,
                                    data |-> <<U8(command)>>,
                                    status |-> temp]),
                  !.le = IF temp # 0 THEN temp ELSE @]

\* Write_Data sending the whole array whatever the height
Write_Data_full(m, data) ==
    LET temp == HAL_I2C_Mem_Write(m.hal, Len(m.tx) + 1)
    IN  [m EXCEPT !.tx = Append(@, [ctrl |-> control_b_data,
                                    data |-> [i \in 1..buffer_size |->
                                                 data[i - 1]],
                                    status |-> temp]),
                  !.le = IF temp # 0 THEN temp ELSE @]

\* Write_Data dropping the status of its call
Write_Data_nolatch(m, data) ==
    LET temp == HAL_I2C_Mem_Write(m.hal, Len(m.tx) + 1)
        n    == (height * width) \div 8
    IN  [m EXCEPT !.tx = Append(@, [ctrl |-> control_b_data,
                                    data |-> [i \in 1..n |-> data[i - 1]],
                                    status |-> temp])]

\* A byte the transport reads past the end of the array: its value is
\* whatever lies in memory there, which is no value of a byte of the model
indeterminate == -1

\* With height > 64 the count height * width / 8 exceeds the array and the
\* transport reads on past its end.
Write_Data(m, data) ==
    LET temp == HAL_I2C_Mem_Write(m.hal, Len(m.tx) + 1)
        n    == (height * width) \div 8
    IN  [m EXCEPT !.tx = Append(@, [ctrl |-> control_b_data,
                                    data |-> [i \in 1..n |->
                                                 IF i - 1 < buffer_size
                                                 THEN data[i - 1]
                                                 ELSE indeterminate],
                                    status |-> temp]),
                  !.le = IF temp # 0 THEN temp ELSE @]

----------------------------------------------------------------------------
(* Single-command operations *)

Display_Off(m) == Write_Command(m, \hAE)

\* Display_On that also transmits the framebuffer
Display_On_refresh(m) == Write_Data(Write_Command(m, \hAF), buffer)

Display_On(m) == Write_Command(m, \hAF)

\* Flip_Screen with its two commands exchanged
Flip_Screen_swapped(m, flipped) ==
    IF flipped = FALSE THEN Write_Command(m, \hC0) ELSE Write_Command(m, \hC8)

Flip_Screen(m, flipped) ==
    IF flipped = FALSE THEN Write_Command(m, \hC8) ELSE Write_Command(m, \hC0)

Invert_Colors(m, inverted) ==
    IF inverted = TRUE THEN Write_Command(m, \hA7) ELSE Write_Command(m, \hA6)

Mirror_Screen(m, mirrored) ==
    IF mirrored = FALSE THEN Write_Command(m, \hA1) ELSE Write_Command(m, \hA0)

Set_Brightness(m, brightness) ==
    Write_Command(Write_Command(m, \h81), brightness)

----------------------------------------------------------------------------
(* Framebuffer *)

Fill(color) ==
    IF color = BLACK THEN [i \in 0..(buffer_size - 1) |-> BLACK]
    ELSE [i \in 0..(buffer_size - 1) |-> WHITE]

Clean == Fill(BLACK)

\* Draw_Pixel with its range check off by one
Draw_Pixel_offbyone(buf, x, y, c) ==
    IF x > width \/ y > height THEN buf
    ELSE IF c = WHITE
         THEN [buf EXCEPT ![x + width * (y \div 8)] =
                              BitOr(@, U8(Pow2(y % 8)))]
         ELSE [buf EXCEPT ![x + width * (y \div 8)] =
                              BitAnd(@, U8(-1 - Pow2(y % 8)))]

Draw_Pixel(buf, x, y, c) ==
    IF x >= width \/ y >= height THEN buf
    ELSE IF c = WHITE
         THEN [buf EXCEPT ![x + width * (y \div 8)] =
                              BitOr(@, U8(Pow2(y % 8)))]
         ELSE [buf EXCEPT ![x + width * (y \div 8)] =
                              BitAnd(@, U8(-1 - Pow2(y % 8)))]

\* The for loop of Draw_Line_H; l = [buf, i] is the framebuffer and the
\* loop counter
RECURSIVE Draw_Line_H_loop(_, _, _, _, _)
Draw_Line_H_loop(l, x, y, w, c) ==
    IF l.i < w
    THEN Draw_Line_H_loop([buf |-> Draw_Pixel(l.buf, U8(x + l.i), y, c),
                           i   |-> l.i + 1],
                          x, y, w, c)
    ELSE l.buf

Draw_Line_H(buf, x, y, w, c) ==
    Draw_Line_H_loop([buf |-> buf, i |-> 0], x, y, w, c)

\* The for loop of Draw_Line_V; l = [buf, i]
RECURSIVE Draw_Line_V_loop(_, _, _, _, _)
Draw_Line_V_loop(l, x, y, h, c) ==
    IF l.i < h
    THEN Draw_Line_V_loop([buf |-> Draw_Pixel(l.buf, x, U8(y + l.i), c),
                           i   |-> l.i + 1],
                          x, y, h, c)
    ELSE l.buf

Draw_Line_V(buf, x, y, h, c) ==
    Draw_Line_V_loop([buf |-> buf, i |-> 0], x, y, h, c)

Draw_Square(buf, x, y, x2, y2, c) ==
    LET b1 == Draw_Line_H(buf, x, y, U8(x2 - x + 1), c)
        b2 == Draw_Line_H(b1, x, y2, U8(x2 - x + 1), c)
        b3 == Draw_Line_V(b2, x, y, U8(y2 - y + 1), c)
    IN  Draw_Line_V(b3, x2, y, U8(y2 - y + 1), c)

\* The for loop of Draw_Waveform; l = [buf, i]; samples is 1-indexed
RECURSIVE Draw_Waveform_loop(_, _, _, _, _, _)
Draw_Waveform_loop(l, x, y, samples, size, c) ==
    IF l.i < size
    THEN Draw_Waveform_loop(
             [buf |-> Draw_Pixel(l.buf, U8(l.i + x),
                                 U8(y - samples[l.i + 1]), c),
              i   |-> l.i + 1],
             x, y, samples, size, c)
    ELSE l.buf

\* Draw_Waveform with its loop started at the second sample
Draw_Waveform_skipfirst(buf, x, y, samples, size, c) ==
    Draw_Waveform_loop([buf |-> buf, i |-> 1], x, y, samples, size, c)

Draw_Waveform(buf, x, y, samples, size, c) ==
    Draw_Waveform_loop([buf |-> buf, i |-> 0], x, y, samples, size, c)

\* Draw_Image with its loop stopped one byte early (the last byte is shown
\* as 0)
Draw_Image_short(image) ==
    [i \in 0..(buffer_size - 1) |->
        IF i < buffer_size - 1 THEN image[i] ELSE 0]

Draw_Image(image) == [i \in 0..(buffer_size - 1) |-> image[i]]

Set_Cursor(x, y) ==
    [X |-> IF x >= width THEN width ELSE x,
     Y |-> IF y >= height THEN height ELSE y]

----------------------------------------------------------------------------
(* Text.  Coordinates.Y and the font do not change while text is written.  *)

\* (row << x) & 0x8000
RowBit(row, x) == ((row * Pow2(x)) \div 32768) % 2 = 1

\* The body of the inner for loop of Write_Char
Write_Char_pixel(buf, X, Y, row, x, y, color) ==
    IF color = BLACK
    THEN IF RowBit(row, x)
         THEN Draw_Pixel(buf, U8(X + x), U8(Y + y), BLACK)
         ELSE Draw_Pixel(buf, U8(X + x), U8(Y + y), WHITE)
    ELSE IF RowBit(row, x)
         THEN Draw_Pixel(buf, U8(X + x), U8(Y + y), WHITE)
         ELSE Draw_Pixel(buf, U8(X + x), U8(Y + y), BLACK)

\* The inner for loop of Write_Char; l = [buf, x]
RECURSIVE Write_Char_row(_, _, _, _, _, _, _)
Write_Char_row(l, X, Y, fnt, row, y, color) ==
    IF l.x < fnt.FontWidth
    THEN Write_Char_row(
             [buf |-> Write_Char_pixel(l.buf, X, Y, row, l.x, y, color),
              x   |-> l.x + 1],
             X, Y, fnt, row, y, color)
    ELSE l.buf

\* The outer for loop of Write_Char; l = [buf, y]
RECURSIVE Write_Char_rows(_, _, _, _, _, _)
Write_Char_rows(l, X, Y, fnt, chr, color) ==
    IF l.y < fnt.FontHeight
    THEN Write_Char_rows(
             [buf |-> Write_Char_row(
                          [buf |-> l.buf, x |-> 0], X, Y, fnt,
                          fnt.data[(chr - 32) * fnt.FontHeight + l.y],
                          l.y, color),
              y   |-> l.y + 1],
             X, Y, fnt, chr, color)
    ELSE l.buf

\* t = [buf, X, i]: the framebuffer, Coordinates.X and the index into the text
Write_Char(t, Y, fnt, chr, color) ==
    [t EXCEPT !.buf = Write_Char_rows([buf |-> t.buf, y |-> 0],
                                      t.X, Y, fnt, chr, color),
              !.X   = U8(t.X + fnt.FontWidth)]

\* The while loop shared by Write_String and Write_String_Inverted; str is
\* the text before its terminating zero, 1-indexed
RECURSIVE Write_String_loop(_, _, _, _, _)
Write_String_loop(t, Y, fnt, str, color) ==
    IF t.i < Len(str)
    THEN Write_String_loop(
             [Write_Char(t, Y, fnt, str[t.i + 1], color) EXCEPT !.i = t.i + 1],
             Y, fnt, str, color)
    ELSE t

Write_String(buf, XY, fnt, str) ==
    Write_String_loop([buf |-> buf, X |-> XY.X, i |-> 0],
                      XY.Y, fnt, str, WHITE)

Write_String_Inverted(buf, XY, fnt, str) ==
    Write_String_loop([buf |-> buf, X |-> XY.X, i |-> 0],
                      XY.Y, fnt, str, BLACK)

----------------------------------------------------------------------------
(* Refresh and initialisation *)

Update_Screen(m, buf) ==
    LET m1 == Write_Command(m, \h21)
        m2 == Write_Command(m1, \h00)
        m3 == Write_Command(m2, 127)
        m4 == Write_Command(m3, \h22)
        m5 == Write_Command(m4, \h00)
        m6 == Write_Command(m5, (height \div 8) - 1)
    IN  Write_Data(m6, buf)

\* Write_Command applied to each byte of a sequence in order
RECURSIVE Write_Commands(_, _)
Write_Commands(m, cmds) ==
    IF cmds = <<>> THEN m
    ELSE Write_Commands(Write_Command(m, Head(cmds)), Tail(cmds))

\* Initialize clearing last_error before its first command
Initialize_fresh(m) ==
    LET a == Display_Off([m EXCEPT !.le = 0])
        b == Write_Commands(a, << \hD5, \h80, \hA8, height - 1, \hD3, \h00,
                                  \h40, \h8D, \h14 >>)
        c == Flip_Screen(Mirror_Screen(b, FALSE), FALSE)
        d == Write_Commands(c, << \hDA, hard_conf >>)
        e == Set_Brightness(d, 150)
        f == Write_Commands(e, << \hD9, \h22, \hDB, \h40, \hA4 >>)
        g == Invert_Colors(f, FALSE)
        h == Write_Commands(g, << \h20, \h00, \h21, \h00, width - 1,
                                  \h22, \h00, (height \div 8) - 1 >>)
        i == Display_On(h)
    IN  Update_Screen(i, Clean)

\* The transport part of Initialize, up to and including Update_Screen of
\* the cleaned buffer.
Initialize(m) ==
    LET a == Display_Off(m)
        b == Write_Commands(a, << \hD5, \h80, \hA8, height - 1, \hD3, \h00,
                                  \h40, \h8D, \h14 >>)
        c == Flip_Screen(Mirror_Screen(b, FALSE), FALSE)
        d == Write_Commands(c, << \hDA, hard_conf >>)
        e == Set_Brightness(d, 150)
        f == Write_Commands(e, << \hD9, \h22, \hDB, \h40, \hA4 >>)
        g == Invert_Colors(f, FALSE)
        h == Write_Commands(g, << \h20, \h00, \h21, \h00, width - 1,
                                  \h22, \h00, (height \div 8) - 1 >>)
        i == Display_On(h)
    IN  Update_Screen(i, Clean)

----------------------------------------------------------------------------
(* Inputs *)

\* Constructor arguments <<screen_height, hardware_configuration>>
Configs == { <<32, SEQ_NOREMAP>>, <<64, ALT_NOREMAP>>, <<64, SEQ_NOREMAP>> }

\* HAL status schedules <<from, until, e1, e2>>, see HAL_I2C_Mem_Write
NoFault == <<1, 1, 0, 0>>
FirstFails == <<1, 2, 1, 0>>     \* the first call fails, the rest succeed
Faults == { NoFault, FirstFails,
            <<2, 3, 3, 2>>,      \* second call times out, later calls busy
            <<7, 8, 2, 0>>,      \* only the 7th call fails
            <<38, 39, 1, 0>> }   \* only the 38th call fails

\* Contents the framebuffer may hold at construction (it is not initialised)
Garbage == [i \in 0..(buffer_size - 1) |-> (i * 37 + 11) % 256]

\* Values Coordinates may hold at construction (it is not initialised)
InitCoordinates == { [X |-> 0, Y |-> 0], [X |-> 250, Y |-> 3] }

\* Rows of the glyph '8' of Fonts::font_7x10
Rows8 == << \h3800, \h4400, \h4400, \h3800, \h4400,
            \h4400, \h4400, \h3800, \h0000, \h0000 >>

font_7x10 ==
    [FontWidth |-> 7, FontHeight |-> 10,
     data |-> [i \in 240..249 |-> Rows8[i - 239]]]

\* A caller-supplied FontDef, 16 wide and 3 high, with glyphs '8' and '9'
font_16x3 ==
    [FontWidth |-> 16, FontHeight |-> 3,
     data |-> [i \in 72..77 |->
                  << \hFFFF, \h8001, \h0001, \h0000, \h5555, \h8000 >>[i - 71]]]

FontDefs == { font_7x10, font_16x3 }

\* n copies of the character '8'
Eights(n) == [i \in 1..n |-> 56]

\* Texts whose characters have a glyph in font fnt
Strings(fnt) ==
    IF fnt = font_7x10
    THEN { <<>>, <<56>>, Eights(LongLen) }
    ELSE { <<57>>, <<56, 57, 56>>, Eights(LongLen) }

\* An image of buffer_size bytes
Image == [i \in 0..(buffer_size - 1) |-> (i * 91 + 5) % 256]

\* Images of buffer_size bytes; the second differs in each quarter
Images ==
    { Image, [i \in 0..(buffer_size - 1) |-> (i * 13 + 7 * (i \div 256)) % 256] }

----------------------------------------------------------------------------
(* Construction *)

SSD1306(configs, buffers, coordinates) ==
    /\ \E cf \in configs : height = cf[1] /\ hard_conf = cf[2]
    /\ buffer \in buffers
    /\ Coordinates \in coordinates
    /\ font = font_7x10
    /\ isinitialized = FALSE
    /\ last_error = IF height > 64 THEN \hFF ELSE 0
    /\ sent = <<>>
    /\ op = [name |-> "SSD1306"]
    /\ ret = "void"

----------------------------------------------------------------------------
(* The object in memory.  buffer is followed by the members declared after *)
(* it, in declaration order: bool isinitialized, int last_error (aligned   *)
(* to 4 bytes, least significant byte first), the two control bytes and    *)
(* Coordinates.  An index past the end of buffer addresses these bytes.    *)

isinitialized_at == buffer_size
last_error_at == buffer_size + 4
control_at == buffer_size + 8
Coordinates_at == buffer_size + 10
object_end == buffer_size + 12

\* Byte k (0 is the least significant) of the int v in two's complement
IntByte(v, k) == (v \div Pow2(8 * k)) % 256

\* The int whose four bytes are b0 (least significant) .. b3
Int32(b0, b1, b2, b3) ==
    b0 + 256 * b1 + 65536 * b2
    + 16777216 * (IF b3 >= 128 THEN b3 - 256 ELSE b3)

\* The bytes of the object from the start of the framebuffer buf on
Object(buf) ==
    [i \in 0..(object_end - 1) |->
        IF i < buffer_size THEN buf[i]
        ELSE IF i = isinitialized_at THEN (IF isinitialized THEN 1 ELSE 0)
        ELSE IF i >= last_error_at /\ i < last_error_at + 4
             THEN IntByte(last_error, i - last_error_at)
        ELSE IF i = control_at THEN control_b_command
        ELSE IF i = control_at + 1 THEN control_b_data
        ELSE IF i = Coordinates_at THEN Coordinates.X
        ELSE IF i = Coordinates_at + 1 THEN Coordinates.Y
        ELSE 0]

----------------------------------------------------------------------------
(* Operations.  Each action is one call of a public method. *)

\* Bookkeeping common to all calls
Call(o) ==
    /\ op' = o
    /\ steps > 0
    /\ steps' = steps - 1
    /\ UNCHANGED <<height, hard_conf>>

DoInitialize(f) ==
    LET m == Initialize(Machine(f))
    IN  /\ Call([name |-> "Initialize"])
        /\ buffer' = Clean
        /\ sent' = m.tx
        /\ last_error' = m.le
        /\ isinitialized' = (m.le = 0)
        /\ ret' = (m.le = 0)
        /\ UNCHANGED <<Coordinates, font>>

DoUpdate_Screen(f) ==
    LET m == Update_Screen(Machine(f), buffer)
    IN  /\ Call([name |-> "Update_Screen"])
        /\ sent' = m.tx
        /\ last_error' = m.le
        /\ ret' = "void"
        /\ UNCHANGED <<buffer, Coordinates, font, isinitialized>>

DoFill(color) ==
    /\ Call([name |-> "Fill", color |-> color])
    /\ buffer' = Fill(color)
    /\ sent' = <<>>
    /\ ret' = "void"
    /\ UNCHANGED <<Coordinates, font, isinitialized, last_error>>

DoClean ==
    /\ Call([name |-> "Clean"])
    /\ buffer' = Clean
    /\ sent' = <<>>
    /\ ret' = "void"
    /\ UNCHANGED <<Coordinates, font, isinitialized, last_error>>

\* An operation that only talks to the transport
Transport(o, m) ==
    /\ Call(o)
    /\ sent' = m.tx
    /\ last_error' = m.le
    /\ ret' = "void"
    /\ UNCHANGED <<buffer, Coordinates, font, isinitialized>>

DoDisplay_Off(f) == Transport([name |-> "Display_Off"], Display_Off(Machine(f)))

DoDisplay_On(f) == Transport([name |-> "Display_On"], Display_On(Machine(f)))

DoSet_Brightness(f, brightness) ==
    Transport([name |-> "Set_Brightness", brightness |-> brightness],
              Set_Brightness(Machine(f), brightness))

DoInvert_Colors(f, inverted) ==
    Transport([name |-> "Invert_Colors", inverted |-> inverted],
              Invert_Colors(Machine(f), inverted))

DoFlip_Screen(f, flipped) ==
    Transport([name |-> "Flip_Screen", flipped |-> flipped],
              Flip_Screen(Machine(f), flipped))

DoMirror_Screen(f, mirrored) ==
    Transport([name |-> "Mirror_Screen", mirrored |-> mirrored],
              Mirror_Screen(Machine(f), mirrored))

DoGet_Last_Error ==
    /\ Call([name |-> "Get_Last_Error"])
    /\ sent' = <<>>
    /\ ret' = last_error
    /\ UNCHANGED <<buffer, Coordinates, font, isinitialized, last_error>>

DoClean_Errors ==
    /\ Call([name |-> "Clean_Errors"])
    /\ sent' = <<>>
    /\ last_error' = 0
    /\ ret' = "void"
    /\ UNCHANGED <<buffer, Coordinates, font, isinitialized>>

DoIsInitialized ==
    /\ Call([name |-> "IsInitialized"])
    /\ sent' = <<>>
    /\ ret' = isinitialized
    /\ UNCHANGED <<buffer, Coordinates, font, isinitialized, last_error>>

\* An operation that writes through buffer[...]; mem is the object after
\* the operation.  Writes to indices below buffer_size change the
\* framebuffer; writes past it land in the members that follow.  The padding
\* and the two const control bytes are not state of the model, and neither
\* is memory past the end of the object: writes there are not tracked.
Draw(o, mem) ==
    /\ Call(o)
    /\ buffer' = [i \in 0..(buffer_size - 1) |-> mem[i]]
    /\ isinitialized' = (mem[isinitialized_at] # 0)
    /\ last_error' = Int32(mem[last_error_at], mem[last_error_at + 1],
                           mem[last_error_at + 2], mem[last_error_at + 3])
    /\ Coordinates' = [X |-> mem[Coordinates_at], Y |-> mem[Coordinates_at + 1]]
    /\ sent' = <<>>
    /\ ret' = "void"
    /\ UNCHANGED font

DoDraw_Pixel(x, y, c) ==
    Draw([name |-> "Draw_Pixel", x |-> x, y |-> y, c |-> c],
         Draw_Pixel(Object(buffer), x, y, c))

DoDraw_Line_H(x, y, w, c) ==
    Draw([name |-> "Draw_Line_H", x |-> x, y |-> y, width |-> w, c |-> c],
         Draw_Line_H(Object(buffer), x, y, w, c))

DoDraw_Line_V(x, y, h, c) ==
    Draw([name |-> "Draw_Line_V", x |-> x, y |-> y, height |-> h, c |-> c],
         Draw_Line_V(Object(buffer), x, y, h, c))

DoDraw_Square(x, y, x2, y2, c) ==
    Draw([name |-> "Draw_Square", x |-> x, y |-> y, x2 |-> x2, y2 |-> y2,
          c |-> c],
         Draw_Square(Object(buffer), x, y, x2, y2, c))

DoDraw_Waveform(x, y, samples, c) ==
    Draw([name |-> "Draw_Waveform", x |-> x, y |-> y, buffer |-> samples,
          size |-> Len(samples), c |-> c],
         Draw_Waveform(Object(buffer), x, y, samples, Len(samples), c))

DoDraw_Image(image) ==
    Draw([name |-> "Draw_Image", image |-> image],
         Object(Draw_Image(image)))

DoSet_Cursor(x, y) ==
    /\ Call([name |-> "Set_Cursor", x |-> x, y |-> y])
    /\ Coordinates' = Set_Cursor(x, y)
    /\ sent' = <<>>
    /\ ret' = "void"
    /\ UNCHANGED <<buffer, font, isinitialized, last_error>>

DoSet_Font_size(fnt) ==
    /\ Call([name |-> "Set_Font_size", font |-> fnt])
    /\ font' = fnt
    /\ sent' = <<>>
    /\ ret' = "void"
    /\ UNCHANGED <<buffer, Coordinates, isinitialized, last_error>>

\* An operation that writes text
Text(o, t) ==
    /\ Call(o)
    /\ buffer' = t.buf
    /\ Coordinates' = [Coordinates EXCEPT !.X = t.X]
    /\ sent' = <<>>
    /\ ret' = "void"
    /\ UNCHANGED <<font, isinitialized, last_error>>

DoWrite_String(str) ==
    Text([name |-> "Write_String", str |-> str],
         Write_String(buffer, Coordinates, font, str))

DoWrite_String_Inverted(str) ==
    Text([name |-> "Write_String_Inverted", str |-> str],
         Write_String_Inverted(buffer, Coordinates, font, str))

----------------------------------------------------------------------------
(* The driver under every operation, with few inputs for each *)

Init == SSD1306(Configs, {Garbage}, {[X |-> 0, Y |-> 0]}) /\ steps = MaxSteps

Next ==
    \/ \E f \in Faults \ {<<7, 8, 2, 0>>} : DoInitialize(f)
    \/ \E f \in Faults \ {<<38, 39, 1, 0>>} : DoUpdate_Screen(f)
    \/ \E c \in {BLACK, WHITE} : DoFill(c)
    \/ DoClean
    \/ \E f \in {NoFault, FirstFails} : DoDisplay_Off(f)
    \/ \E f \in {NoFault, FirstFails} : DoDisplay_On(f)
    \/ \E f \in {NoFault, FirstFails, <<2, 3, 3, 2>>} : DoSet_Brightness(f, 200)
    \/ \E a \in {<<NoFault, TRUE>>, <<NoFault, FALSE>>, <<FirstFails, TRUE>>} :
           DoInvert_Colors(a[1], a[2])
    \/ \E a \in {<<NoFault, TRUE>>, <<NoFault, FALSE>>, <<FirstFails, TRUE>>} :
           DoFlip_Screen(a[1], a[2])
    \/ \E a \in {<<NoFault, TRUE>>, <<NoFault, FALSE>>, <<FirstFails, TRUE>>} :
           DoMirror_Screen(a[1], a[2])
    \/ DoGet_Last_Error
    \/ DoClean_Errors
    \/ DoIsInitialized
    \/ \E a \in {<<5, 3>>, <<128, 64>>, <<255, 40>>} : DoSet_Cursor(a[1], a[2])
    \/ DoSet_Font_size(font_16x3)
    \/ DoDraw_Pixel(1, 3, WHITE)
    \/ DoDraw_Line_H(2, 3, 10, BLACK)
    \/ DoDraw_Line_V(1, 1, 5, WHITE)
    \/ DoDraw_Square(1, 1, 4, 5, WHITE)
    \/ DoDraw_Waveform(1, 7, <<1, 3, 4, 0, 7>>, WHITE)
    \/ \E image \in Images : DoDraw_Image(image)
    \/ DoWrite_String(<<56>>)
    \/ DoWrite_String_Inverted(<<56>>)

Spec == Init /\ [][Next]_vars

----------------------------------------------------------------------------
(* The drawing primitives, with inputs on both sides of every edge *)

PixelXs == {0, 1, 127, 128, 255}
PixelYs == {0, 3, 8, 31, 32, 63, 64, 255}

\* <<x, y, length>>
LineArgs == { <<2, 3, 10>>, <<0, 0, 0>>, <<120, 31, 20>>, <<0, 63, 40>>,
              <<250, 8, 10>>, <<1, 1, 5>>, <<127, 28, 10>>, <<3, 60, 10>>,
              <<5, 250, 10>>, <<128, 0, 4>>, <<200, 200, 30>> }

\* <<x, y, x2, y2>> with x2 >= x and y2 >= y
SquareArgs == { <<1, 1, 4, 5>>, <<6, 0, 6, 0>>, <<100, 24, 127, 63>>,
                <<120, 28, 130, 40>>, <<3, 3, 3, 9>>, <<2, 60, 9, 60>>,
                <<0, 0, 255, 10>>, <<5, 0, 20, 255>>, <<130, 70, 140, 80>>,
                <<0, 0, 0, 0>> }

\* <<x, y, samples>>
WaveArgs == { <<1, 7, <<1, 3, 4, 0, 7>>>>, <<0, 63, <<0, 63, 10>>>>,
              <<125, 31, <<0, 31, 5>>>>, <<10, 100, <<40, 90, 36, 37>>>>,
              <<126, 7, <<1, 2, 3, 4>>>>, <<254, 7, <<1, 2, 3, 4>>>>,
              <<3, 2, <<5, 1>>>>, <<0, 0, <<>>>>, <<5, 20, <<3, 3, 3>>>>,
              <<0, 255, <<255, 200, 192>>>> }

InitDraw ==
    SSD1306(Configs, {Fill(BLACK), Garbage}, {[X |-> 0, Y |-> 0]})
    /\ steps = MaxDrawSteps

NextDraw ==
    \/ \E c \in {BLACK, WHITE} : DoFill(c)
    \/ \E x \in PixelXs, y \in PixelYs, c \in {BLACK, WHITE} :
           DoDraw_Pixel(x, y, c)
    \/ \E a \in LineArgs, c \in {BLACK, WHITE} :
           DoDraw_Line_H(a[1], a[2], a[3], c)
    \/ \E a \in LineArgs, c \in {BLACK, WHITE} :
           DoDraw_Line_V(a[1], a[2], a[3], c)
    \/ \E a \in SquareArgs, c \in {BLACK, WHITE} :
           DoDraw_Square(a[1], a[2], a[3], a[4], c)
    \/ \E a \in WaveArgs, c \in {BLACK, WHITE} :
           DoDraw_Waveform(a[1], a[2], a[3], c)

SpecDraw == InitDraw /\ [][NextDraw]_vars

----------------------------------------------------------------------------
(* Text and cursor *)

CursorArgs == { <<0, 0>>, <<5, 3>>, <<124, 25>>, <<127, 31>>, <<128, 64>>,
                <<200, 40>>, <<255, 255>> }

InitText ==
    SSD1306({<<32, SEQ_NOREMAP>>, <<64, ALT_NOREMAP>>},
            {Fill(BLACK), Garbage}, InitCoordinates)
    /\ steps = MaxTextSteps

NextText ==
    \/ \E a \in CursorArgs : DoSet_Cursor(a[1], a[2])
    \/ \E fnt \in FontDefs : DoSet_Font_size(fnt)
    \/ \E str \in Strings(font) : DoWrite_String(str)
    \/ \E str \in Strings(font) : DoWrite_String_Inverted(str)

SpecText == InitText /\ [][NextText]_vars

----------------------------------------------------------------------------
(* Displays of any height the constructor accepts *)

TallConfigs == { <<0, ALT_NOREMAP>>, <<64, ALT_NOREMAP>>, <<65, ALT_NOREMAP>>,
                 <<128, SEQ_NOREMAP>>, <<255, ALT_NOREMAP>> }

TallXs == {0, 4, 127, 128}
TallYs == {0, 63, 64, 71, 127, 255}

\* <<x, y, length>>
TallLines == { <<4, 64, 8>>, <<0, 60, 8>>, <<10, 250, 10>> }

InitTall ==
    SSD1306(TallConfigs, {Garbage}, {[X |-> 0, Y |-> 0]})
    /\ steps = MaxTallSteps

NextTall ==
    \/ \E f \in {NoFault, FirstFails} : DoInitialize(f)
    \/ \E f \in {NoFault, FirstFails} : DoUpdate_Screen(f)
    \/ \E f \in {NoFault, FirstFails} : DoDisplay_On(f)
    \/ DoClean_Errors
    \/ DoGet_Last_Error
    \/ DoIsInitialized
    \/ \E c \in {BLACK, WHITE} : DoFill(c)
    \/ \E x \in TallXs, y \in TallYs, c \in {BLACK, WHITE} :
           DoDraw_Pixel(x, y, c)
    \/ \E a \in TallLines, c \in {BLACK, WHITE} :
           DoDraw_Line_V(a[1], a[2], a[3], c)

SpecTall == InitTall /\ [][NextTall]_vars

----------------------------------------------------------------------------
(* Errors and initialisation on displays of any height, with drawing that  *)
(* stays inside the framebuffer                                            *)

InitSticky ==
    SSD1306(TallConfigs, {Garbage}, {[X |-> 0, Y |-> 0]})
    /\ steps = MaxStickySteps

NextSticky ==
    \/ \E f \in {NoFault, FirstFails, <<38, 39, 1, 0>>} : DoInitialize(f)
    \/ \E f \in {NoFault, <<7, 8, 2, 0>>} : DoUpdate_Screen(f)
    \/ \E f \in {NoFault, FirstFails} : DoDisplay_Off(f)
    \/ \E f \in {NoFault, <<2, 3, 3, 2>>} : DoSet_Brightness(f, 200)
    \/ DoClean_Errors
    \/ DoGet_Last_Error
    \/ DoIsInitialized
    \/ DoFill(WHITE)
    \/ \E a \in {<<1, 3>>, <<127, 63>>} : DoDraw_Pixel(a[1], a[2], WHITE)

SpecSticky == InitSticky /\ [][NextSticky]_vars

----------------------------------------------------------------------------
(* Reading the framebuffer and the transport record *)

\* Bit k of byte b
Bit(b, k) == (b \div Pow2(k)) % 2

\* Byte b with bit k replaced by v
WithBit(b, k, v) == b - Bit(b, k) * Pow2(k) + v * Pow2(k)

\* 1 for WHITE (pixel on), 0 for BLACK
On(c) == IF c = WHITE THEN 1 ELSE 0

\* The payload bytes of the command calls among calls, in order
CommandBytes(calls) == [i \in 1..Len(calls) |-> calls[i].data[1]]

AllCommands(calls) ==
    \A i \in 1..Len(calls) :
        calls[i].ctrl = control_b_command /\ Len(calls[i].data) = 1

\* The six commands and the data block of one refresh of framebuffer buf
IsRefresh(calls, buf) ==
    /\ Len(calls) = 7
    /\ AllCommands(SubSeq(calls, 1, 6))
    /\ CommandBytes(SubSeq(calls, 1, 6)) =
           << \h21, \h00, 127, \h22, \h00, (height \div 8) - 1 >>
    /\ calls[7].ctrl = control_b_data
    /\ Len(calls[7].data) = (width * height) \div 8
    /\ \A i \in 1..Len(calls[7].data) : calls[7].data[i] = buf[i - 1]

----------------------------------------------------------------------------
(* C1: Draw_Pixel(x, y, color) with x < width and y < height makes bit     *)
(* y % 8 of framebuffer byte x + width*(y/8) 1 for WHITE and 0 for BLACK   *)
(* and changes no other bit; with x >= width or y >= height it leaves the  *)
(* whole framebuffer unchanged.                                            *)
C1_DrawPixel ==
    [][op'.name = "Draw_Pixel" =>
          IF op'.x < width /\ op'.y < height
          THEN buffer' = [buffer EXCEPT
                              ![op'.x + width * (op'.y \div 8)] =
                                  WithBit(@, op'.y % 8, On(op'.c))]
          ELSE buffer' = buffer]_vars

\* A pixel of the last row of a 32-row display was cleared in a framebuffer
\* that still has other bits set
C1_Witness ==
    /\ op.name = "Draw_Pixel"
    /\ height = 32 /\ op.x = 127 /\ op.y = 31 /\ op.c = BLACK
    /\ Bit(buffer[127 + width * 3], 7) = 0
    /\ buffer[127 + width * 3] # 0

(* C2: one Update_Screen sends exactly the six window commands 0x21, 0x00, *)
(* 127, 0x22, 0x00, height/8 - 1 and then one data block of width*height/8 *)
(* bytes equal to the framebuffer byte for byte (all 0xFF after            *)
(* Fill(WHITE), all 0x00 after Fill(BLACK)), sends nothing else and leaves *)
(* the framebuffer unchanged.                                              *)
C2_UpdateScreen ==
    [][op'.name = "Update_Screen" =>
          /\ IsRefresh(sent', buffer)
          /\ buffer' = buffer
          /\ op.name = "Fill" =>
                 \A i \in 1..Len(sent'[7].data) : sent'[7].data[i] = op.color
      ]_vars

\* A 32-row display refreshed: 512 bytes of a framebuffer that is not
\* uniform went out after the page window 0..3
C2_Witness ==
    /\ op.name = "Update_Screen"
    /\ height = 32
    /\ sent[6].data = <<3>>
    /\ Len(sent[7].data) = 512
    /\ sent[7].data[1] # sent[7].data[512]

(* C3: Initialize sends exactly the 31 initialisation commands, in order   *)
(* and with nothing interleaved, then fills the framebuffer BLACK and      *)
(* performs one refresh (six window commands and an all-zero data block),  *)
(* whether or not an earlier command failed.                               *)
C3_InitializeSequence ==
    [][op'.name = "Initialize" =>
          /\ Len(sent') = 38
          /\ AllCommands(SubSeq(sent', 1, 31))
          /\ CommandBytes(SubSeq(sent', 1, 31)) =
                 << \hAE, \hD5, \h80, \hA8, height - 1, \hD3, \h00, \h40,
                    \h8D, \h14, \hA1, \hC8, \hDA, hard_conf, \h81, 150,
                    \hD9, \h22, \hDB, \h40, \hA4, \hA6, \h20, \h00,
                    \h21, \h00, width - 1, \h22, \h00, (height \div 8) - 1,
                    \hAF >>
          /\ IsRefresh(SubSeq(sent', 32, 38), buffer')
          /\ \A i \in 0..(buffer_size - 1) : buffer'[i] = 0
          /\ \A i \in 1..Len(sent'[38].data) : sent'[38].data[i] = 0
      ]_vars

\* An Initialize whose first command failed and that still sent everything
C3_Witness ==
    /\ op.name = "Initialize"
    /\ sent[1].status # 0
    /\ Len(sent) = 38
    /\ sent[31].data = << \hAF >>
    /\ sent[38].ctrl = control_b_data

(* C4: Initialize returns true, and leaves IsInitialized() true, exactly   *)
(* when last_error is 0 after its last transport call, and false           *)
(* otherwise; so it ends initialised only if none of its transport calls   *)
(* returned a nonzero status, and it never writes 0 into last_error.       *)
C4_InitializeResult ==
    [][op'.name = "Initialize" =>
          /\ ret' = (last_error' = 0)
          /\ isinitialized' = ret'
          /\ isinitialized' => \A i \in 1..Len(sent') : sent'[i].status = 0
          /\ last_error' = 0 => last_error = 0
      ]_vars

\* An Initialize that failed only because its last call, the data block,
\* failed
C4_Witness ==
    /\ op.name = "Initialize"
    /\ ret = FALSE /\ isinitialized = FALSE
    /\ sent[38].status # 0
    /\ \A i \in 1..37 : sent[i].status = 0

\* The status of the last call of calls that returned nonzero, or default
LastNonzero(calls, default) ==
    LET failed == { i \in 1..Len(calls) : calls[i].status # 0 }
    IN  IF failed = {} THEN default
        ELSE calls[CHOOSE i \in failed : \A j \in failed : j <= i].status

(* C5: Get_Last_Error() is the status of the most recent transport call    *)
(* that returned nonzero since construction or the last Clean_Errors(), or *)
(* the construction value / 0 if there was none: a nonzero status          *)
(* overwrites it, a zero status never changes it, only Clean_Errors()      *)
(* sets it back to 0.                                                      *)
C5_LastError ==
    [][/\ last_error' = IF op'.name = "Clean_Errors" THEN 0
                        ELSE LastNonzero(sent', last_error)
       /\ op'.name = "Get_Last_Error" => ret' = last_error
      ]_vars

\* An operation whose calls all succeeded left an earlier error in place
C5_Witness ==
    /\ op.name = "Update_Screen"
    /\ \A i \in 1..Len(sent) : sent[i].status = 0
    /\ last_error = 2

(* C6: after Set_Cursor(x, y) the cursor lies in [0, width) x [0, height): *)
(* an argument in range is stored unchanged, one at or above its bound is  *)
(* clamped so that cursor.x < width and cursor.y < height.                 *)
C6_CursorInRange ==
    op.name = "Set_Cursor" =>
        /\ Coordinates.X < width
        /\ Coordinates.Y < height
        /\ op.x < width => Coordinates.X = op.x
        /\ op.y < height => Coordinates.Y = op.y

\* The byte whose bit k is bits[k]
ByteOf(bits) ==
    bits[0] + 2 * bits[1] + 4 * bits[2] + 8 * bits[3] + 16 * bits[4]
    + 32 * bits[5] + 64 * bits[6] + 128 * bits[7]

\* The framebuffer in which pixel (col, row) is pixel[col, row] (0 or 1)
Framebuffer(Pixel(_, _)) ==
    [j \in 0..(buffer_size - 1) |->
        ByteOf([k \in 0..7 |-> Pixel(j % width, 8 * (j \div width) + k)])]

\* Pixel (col, row) of framebuffer buf
PixelOf(buf, col, row) == Bit(buf[col + width * (row \div 8)], row % 8)

\* The framebuffer after text str is written at (cx, cy) in font fnt with
\* glyph k at columns cx + k*w .. cx + k*w + w - 1 and rows cy .. cy + h - 1,
\* nothing drawn outside the screen; inv is 1 for inverted text
TextAt(buf, cx, cy, fnt, str, inv) ==
    LET w == fnt.FontWidth
        h == fnt.FontHeight
        P(col, row) ==
            IF /\ col >= cx /\ col < cx + Len(str) * w
               /\ row >= cy /\ row < cy + h /\ row < height
            THEN LET k == (col - cx) \div w
                     c == (col - cx) % w
                     g == fnt.data[(str[k + 1] - 32) * h + (row - cy)]
                 IN  (Bit(g, 15 - c) + inv) % 2
            ELSE PixelOf(buf, col, row)
    IN  Framebuffer(P)

IsText(o) == o.name \in {"Write_String", "Write_String_Inverted"}

Inverted(o) == IF o.name = "Write_String_Inverted" THEN 1 ELSE 0

(* C7: writing one character at cursor (cx, cy) sets every pixel           *)
(* (cx+c, cy+r) of the glyph rectangle that is on the screen to the glyph  *)
(* bit 15-c of its row r, XOR inverted mode, changes no pixel outside the  *)
(* rectangle, advances cursor.x by the glyph width and leaves cursor.y;    *)
(* '8' in the 7x10 font at (0,0) on a cleared buffer gives the column      *)
(* bytes 0x00,0x76,0x89,0x89,0x89,0x76,0x00 in page 0 and zeros in page 1. *)
C7_WriteChar ==
    [][IsText(op') /\ Len(op'.str) = 1 =>
          /\ buffer' = TextAt(buffer, Coordinates.X, Coordinates.Y, font,
                              op'.str, Inverted(op'))
          /\ Coordinates'.X = Coordinates.X + font.FontWidth
          /\ Coordinates'.Y = Coordinates.Y
          /\ ( /\ op'.name = "Write_String" /\ op'.str = <<56>>
               /\ font = font_7x10 /\ Coordinates = [X |-> 0, Y |-> 0]
               /\ buffer = Fill(BLACK) )
             => /\ [i \in 1..7 |-> buffer'[i - 1]] =
                       << \h00, \h76, \h89, \h89, \h89, \h76, \h00 >>
                /\ \A i \in 0..6 : buffer'[width + i] = 0
      ]_vars

Painted(buf, Line(_, _), c) ==
    LET P(col, row) ==
            IF row < height /\ Line(col, row) THEN On(c)
            ELSE PixelOf(buf, col, row)
    IN  Framebuffer(P)

(* C9: Draw_Line_H(x, y, length, c) sets exactly the pixels (x+i, y) with  *)
(* 0 <= i < length, x+i < width and y < height, each pixel with            *)
(* x+i >= width being dropped, not wrapped; Draw_Line_V(x, y, length, c)   *)
(* sets exactly the pixels (x, y+i) with 0 <= i < length, x < width and    *)
(* y+i < height.                                                           *)
C9_Lines ==
    [][/\ op'.name = "Draw_Line_H" =>
              LET L(col, row) ==
                      row = op'.y /\ col >= op'.x /\ col < op'.x + op'.width
              IN  buffer' = Painted(buffer, L, op'.c)
       /\ op'.name = "Draw_Line_V" =>
              LET L(col, row) ==
                      col = op'.x /\ row >= op'.y /\ row < op'.y + op'.height
              IN  buffer' = Painted(buffer, L, op'.c)
      ]_vars

(* C10: Draw_Square(x, y, x2, y2, c) with x2 >= x and y2 >= y sets exactly *)
(* the pixels on the screen that lie on the border of the rectangle with   *)
(* corners (x, y) and (x2, y2), corners included, and nothing else; with   *)
(* x2 = x and y2 = y it draws the one pixel (x, y).                        *)
C10_Square ==
    [][op'.name = "Draw_Square" /\ op'.x2 >= op'.x /\ op'.y2 >= op'.y =>
              LET B(col, row) ==
                      \/ /\ row \in {op'.y, op'.y2}
                         /\ col >= op'.x /\ col <= op'.x2
                      \/ /\ col \in {op'.x, op'.x2}
                         /\ row >= op'.y /\ row <= op'.y2
              IN  buffer' = Painted(buffer, B, op'.c)
      ]_vars

(* C11: Draw_Waveform(x, y, samples, count, c) with samples[i] <= y for    *)
(* every i and count <= width - x sets to c exactly the pixels             *)
(* (x+i, y - samples[i]), 0 <= i < count, that have y - samples[i] <       *)
(* height, and leaves every other pixel unchanged; on a cleared buffer     *)
(* Draw_Waveform(1, 7, [1,3,4,0,7], 5, WHITE) gives the bytes 0x40, 0x10,  *)
(* 0x08, 0x80, 0x01 at columns 1..5 of page 0.                             *)
C11_Waveform ==
    [][op'.name = "Draw_Waveform" =>
          /\ ( /\ \A i \in 1..op'.size : op'.buffer[i] <= op'.y
               /\ op'.size <= width - op'.x )
             => LET W(col, row) ==
                        \E i \in 1..op'.size :
                            /\ col = op'.x + (i - 1)
                            /\ row = op'.y - op'.buffer[i]
                IN  buffer' = Painted(buffer, W, op'.c)
          /\ ( /\ op'.x = 1 /\ op'.y = 7 /\ op'.buffer = <<1, 3, 4, 0, 7>>
               /\ op'.c = WHITE /\ buffer = Fill(BLACK) )
             => /\ [i \in 1..5 |-> buffer'[i]] =
                       << \h40, \h10, \h08, \h80, \h01 >>
                /\ \A j \in 0..(buffer_size - 1) :
                       j \notin 1..5 => buffer'[j] = 0
      ]_vars

\* The waveform of the scenario has been drawn on a cleared buffer
C11_Witness ==
    /\ op.name = "Draw_Waveform"
    /\ op.x = 1 /\ op.y = 7 /\ op.buffer = <<1, 3, 4, 0, 7>> /\ op.c = WHITE
    /\ [i \in 1..5 |-> buffer[i]] = << \h40, \h10, \h08, \h80, \h01 >>
    /\ buffer[0] = 0 /\ buffer[6] = 0

(* C12: Draw_Image(img) replaces all buffer_size framebuffer bytes with    *)
(* img, whatever the framebuffer held before, and an Update_Screen that    *)
(* follows it transmits one data block of width*height/8 bytes whose byte  *)
(* i is img[i].                                                            *)
C12_DrawImage ==
    [][/\ op'.name = "Draw_Image" =>
              /\ DOMAIN buffer' = 0..(buffer_size - 1)
              /\ \A i \in 0..(buffer_size - 1) : buffer'[i] = op'.image[i]
       /\ (op.name = "Draw_Image" /\ op'.name = "Update_Screen") =>
              /\ Len(sent') = 7
              /\ sent'[7].ctrl = control_b_data
              /\ Len(sent'[7].data) = (width * height) \div 8
              /\ \A i \in 1..Len(sent'[7].data) :
                     sent'[7].data[i] = op.image[i - 1]
      ]_vars

\* A 64-row display has transmitted the image that replaced the initial
\* framebuffer content
C12_Witness ==
    /\ op.name = "Update_Screen"
    /\ height = 64
    /\ buffer = Image
    /\ Len(sent) = 7
    /\ sent[7].data = [i \in 1..buffer_size |-> Image[i - 1]]

\* The operations that draw or set state without talking to the display
LocalOps ==
    { "Draw_Pixel", "Fill", "Clean", "Draw_Image", "Draw_Line_H",
      "Draw_Line_V", "Draw_Square", "Draw_Waveform", "Write_String",
      "Write_String_Inverted", "Set_Cursor", "Set_Font_size" }

\* The operations that only send commands
CommandOps ==
    { "Display_On", "Display_Off", "Set_Brightness", "Invert_Colors",
      "Flip_Screen", "Mirror_Screen" }

(* C13: each of Draw_Pixel, Fill, Clean, Draw_Image, Draw_Line_H,          *)
(* Draw_Line_V, Draw_Square, Draw_Waveform, Write_String,                  *)
(* Write_String_Inverted, Set_Cursor and Set_Font_size makes no transport  *)
(* call and leaves last_error and isinitialized unchanged; a data block is *)
(* sent only by Update_Screen (also when Initialize calls it); each of     *)
(* Display_On, Display_Off, Set_Brightness, Invert_Colors, Flip_Screen and *)
(* Mirror_Screen sends exactly one or two single command bytes and leaves  *)
(* the framebuffer and the cursor unchanged.                               *)
C13_Separation ==
    [][/\ op'.name \in LocalOps =>
              /\ sent' = <<>>
              /\ last_error' = last_error
              /\ isinitialized' = isinitialized
       /\ (\E i \in 1..Len(sent') : sent'[i].ctrl # control_b_command) =>
              op'.name \in {"Update_Screen", "Initialize"}
       /\ op'.name \in CommandOps =>
              /\ Len(sent') \in {1, 2}
              /\ AllCommands(sent')
              /\ buffer' = buffer
              /\ Coordinates' = Coordinates
      ]_vars

\* A square has been drawn, without any transport call, after a
\* Set_Brightness whose second command failed with status 3: the error is
\* still latched and the square went onto the untouched framebuffer
C13_Witness ==
    /\ op.name = "Draw_Square"
    /\ sent = <<>>
    /\ last_error = 3
    /\ isinitialized = FALSE
    /\ buffer = Draw_Square(Garbage, 1, 1, 4, 5, WHITE)

(* C14: Draw_Pixel never faults: on a display of any height 0..255 every   *)
(* framebuffer byte index it reads or writes, x + width*(y/8), lies in     *)
(* [0, buffer_size), so that a drawing operation changes the framebuffer   *)
(* and nothing else of the object.                                         *)
C14_DrawPixelInBuffer ==
    [][/\ (op'.name = "Draw_Pixel" /\ op'.x < width /\ op'.y < height) =>
              op'.x + width * (op'.y \div 8) \in 0..(buffer_size - 1)
       /\ op'.name \in {"Draw_Pixel", "Draw_Line_V"} =>
              /\ isinitialized' = isinitialized
              /\ last_error' = last_error
              /\ Coordinates' = Coordinates
      ]_vars

====
